---- MODULE Spec2Model ----
(***************************************************************************)
(* The binary record codec of aircon.py: the atomic fields (AttrByte,      *)
(* AttrByteEnum), the aggregate fields (AttrAggregateEnum), the Settings   *)
(* record with set_from_bytes / to_bytes, and the checksum Settings.crc.   *)
(*                                                                         *)
(* Representation.  A Python value that may be None is a sequence of       *)
(* length at most one: <<>> is None, <<v>> is the value v.  A buffer is a  *)
(* sequence of integers; the source's 0-based index p is position p+1.     *)
(* The preset temperature (a float) is counted in quarter degrees, so      *)
(* that float(b)/2.0 and int(v*2) are not inverse on every input.          *)
(***************************************************************************)
EXTENDS Integers, Sequences, FiniteSets, TLC

VARIABLES value, is_control, op, arg, err, src, buf2, out, nsets, crcIn, crcOut

vars == <<value, is_control, op, arg, err, src, buf2, out, nsets, crcIn, crcOut>>

None == <<>>

Some(v) == <<v>>

(***************************************************************************)
(* Python's integer operators.  Integers are unbounded and negative ones   *)
(* behave as infinite two's complement; \div and % floor, as >> does.      *)
(* The operators work on four binary digits at a time.                     *)
(***************************************************************************)
\* digit k (0..3) of a value in 0..15
Digit(n, k) == (n \div << 1, 2, 4, 8 >>[k + 1]) % 2

AndDigits(a, b) ==
    Digit(a, 0) * Digit(b, 0) + 2 * (Digit(a, 1) * Digit(b, 1))
        + 4 * (Digit(a, 2) * Digit(b, 2)) + 8 * (Digit(a, 3) * Digit(b, 3))

RECURSIVE BitAnd(_, _)
BitAnd(x, y) ==
    IF x = 0 \/ y = 0 THEN 0
    ELSE IF x = -1 THEN y
    ELSE IF y = -1 THEN x
    ELSE AndDigits(x % 16, y % 16) + 16 * BitAnd(x \div 16, y \div 16)

\* x | y = x + y - (x & y)
BitOr(x, y) == (x + y) - BitAnd(x, y)

BitNot(x) == (-x) - 1

\* 2^n for the shift counts the code uses (0..7)
Pow2(n) == << 1, 2, 4, 8, 16, 32, 64, 128 >>[n + 1]

ShiftRight(x, n) == x \div Pow2(n)

(***************************************************************************)
(* Settings.__init__: the layout of the record.                            *)
(***************************************************************************)
attributes ==
    << "on_off", "preset_temp", "op_mode", "airflow", "entrust", "model_no",
       "cool_hot_judge", "vacant_property", "self_clean",
       "wind_dir_ud", "wind_dir_lr" >>

Aggregates == {"wind_dir_ud", "wind_dir_lr"}

components(a) ==
    CASE a = "wind_dir_ud" -> << "wind_ud_auto", "wind_ud_pos" >>
      [] a = "wind_dir_lr" -> << "wind_lr_auto", "wind_lr_pos" >>
      [] OTHER -> << a >>

RECURSIVE Flatten(_)
Flatten(s) == IF s = <<>> THEN <<>> ELSE components(Head(s)) \o Flatten(Tail(s))

\* the atomic fields in the order set_from_bytes and to_bytes visit them
FieldOrder == Flatten(attributes)

Fields == { FieldOrder[k] : k \in 1..Len(FieldOrder) }

bytepos(f) ==
    CASE f = "on_off" -> 2
      [] f = "preset_temp" -> 4
      [] f = "op_mode" -> 2
      [] f = "airflow" -> 3
      [] f = "entrust" -> 12
      [] f = "model_no" -> 0
      [] f = "cool_hot_judge" -> 8
      [] f = "vacant_property" -> 10
      [] f = "self_clean" -> 15
      [] f = "wind_ud_auto" -> 2
      [] f = "wind_ud_pos" -> 3
      [] f = "wind_lr_auto" -> 12
      [] f = "wind_lr_pos" -> 11

\* mask=None is 0: the code tests "if self.mask"
mask(f) ==
    CASE f = "on_off" -> 3
      [] f = "preset_temp" -> 0
      [] f = "op_mode" -> 60
      [] f = "airflow" -> 15
      [] f = "entrust" -> 12
      [] f = "model_no" -> 127
      [] f = "cool_hot_judge" -> 8
      [] f = "vacant_property" -> 1
      [] f = "self_clean" -> 15
      [] f = "wind_ud_auto" -> 192
      [] f = "wind_ud_pos" -> 240
      [] f = "wind_lr_auto" -> 3
      [] f = "wind_lr_pos" -> 31

\* controlbit=None is 0: the code tests "if self.controlbit"
controlbit(f) ==
    CASE f = "on_off" -> 2
      [] f = "preset_temp" -> 128
      [] f = "op_mode" -> 32
      [] f = "airflow" -> 8
      [] f = "entrust" -> 8
      [] f = "wind_ud_auto" -> 128
      [] f = "wind_ud_pos" -> 128
      [] f = "wind_lr_auto" -> 2
      [] f = "wind_lr_pos" -> 16
      [] OTHER -> 0

EnumFields == {"op_mode", "airflow", "entrust"}

\* AttrByteEnum values: (raw byte, code) pairs in the order given
values(f) ==
    CASE f = "op_mode" -> << <<0, 0>>, <<8, 1>>, <<16, 2>>, <<12, 3>>, <<4, 4>> >>
      [] f = "airflow" -> << <<7, 0>>, <<0, 1>>, <<1, 2>>, <<2, 3>>, <<6, 4>> >>
      [] f = "entrust" -> << <<0, 0>>, <<4, 1>> >>
      [] OTHER -> <<>>

\* dict.get on a dict built from (key, val) pairs: a later pair wins, a
\* missing key yields None
DictGet(pairs, key) ==
    LET hits == { k \in 1..Len(pairs) : pairs[k][1] = key }
    IN  IF hits = {} THEN None
        ELSE Some(pairs[CHOOSE k \in hits : \A j \in hits : j <= k][2])

\* the lookup built the wrong way round (code -> raw byte)
byte_to_val_swapped(f) ==
    [ k \in 1..Len(values(f)) |-> << values(f)[k][2], values(f)[k][1] >> ]

byte_to_val(f) == values(f)

val_to_byte(f) == [ k \in 1..Len(values(f)) |-> << values(f)[k][2], values(f)[k][1] >> ]

\* int(): truncation toward zero
IntTrunc2(q) == IF q >= 0 THEN q \div 2 ELSE -((-q) \div 2)

\* of_byte: raw integer -> logical value (None possible for an enumeration)
of_byte(f, b) ==
    CASE f = "on_off" -> Some(b = 1)
      [] f = "preset_temp" -> Some(2 * b)
      [] f \in EnumFields -> DictGet(byte_to_val(f), b)
      [] f = "cool_hot_judge" -> Some(IF b <= 0 THEN 0 ELSE 1)
      [] OTHER -> Some(b)

\* "self.value if self.value else 0": None, False, 0 and 0.0 become 0
Truthy(f, v) ==
    /\ v # None
    /\ IF f = "on_off" THEN v[1] = TRUE ELSE v[1] # 0

\* to_byte applied to "self.value if self.value else 0"; None when the
\* enumeration has no such code
to_byte(f, v) ==
    CASE f = "on_off" -> Some(IF Truthy(f, v) THEN 1 ELSE 0)
      [] f = "preset_temp" -> Some(IF Truthy(f, v) THEN IntTrunc2(v[1]) ELSE 0)
      [] f \in EnumFields -> DictGet(val_to_byte(f), IF Truthy(f, v) THEN v[1] ELSE 0)
      [] OTHER -> Some(IF Truthy(f, v) THEN v[1] ELSE 0)

(***************************************************************************)
(* AttrByte.set_from_bytes and AttrByte.apply.  A record state is          *)
(* [value, is_control, err]; err is "none" or the exception raised.        *)
(***************************************************************************)
\* the byte left after masking and stripping the control bit
raw_byte(f, b) ==
    LET m == IF mask(f) # 0 THEN BitAnd(b, mask(f)) ELSE b
    IN  IF controlbit(f) # 0 THEN BitAnd(m, BitNot(controlbit(f))) ELSE m

\* the is_control flag read from the masked byte
raw_control(f, b) ==
    LET m == IF mask(f) # 0 THEN BitAnd(b, mask(f)) ELSE b
    IN  BitAnd(m, controlbit(f)) # 0

\* a decode that leaves a field alone when the buffer has no such index
field_set_from_bytes_skip_short(f, st, byte_array) ==
    IF bytepos(f) >= Len(byte_array)
    THEN st
    ELSE LET b == byte_array[bytepos(f) + 1]
         IN  [ value |-> [st.value EXCEPT ![f] = of_byte(f, raw_byte(f, b))],
               is_control |->
                   IF controlbit(f) # 0
                   THEN [st.is_control EXCEPT ![f] = raw_control(f, b)]
                   ELSE st.is_control,
               err |-> st.err ]

\* one field's set_from_bytes on record state st; IndexError on a short buffer
field_set_from_bytes(f, st, byte_array) ==
    IF bytepos(f) >= Len(byte_array)
    THEN [st EXCEPT !.err = "IndexError"]
    ELSE LET b == byte_array[bytepos(f) + 1]
         IN  [ value |-> [st.value EXCEPT ![f] = of_byte(f, raw_byte(f, b))],
               is_control |->
                   IF controlbit(f) # 0
                   THEN [st.is_control EXCEPT ![f] = raw_control(f, b)]
                   ELSE st.is_control,
               err |-> st.err ]

\* the byte one field contributes; is_control is None, <<TRUE>> or <<FALSE>>.
\* None when to_byte returned None (the code then raises TypeError)
field_byte(f, st, is_control_arg) ==
    LET ic == IF is_control_arg = None THEN st.is_control[f] ELSE is_control_arg[1]
        tb == to_byte(f, st.value[f])
    IN  IF tb = None THEN None
        ELSE LET m == IF mask(f) # 0 THEN BitAnd(tb[1], mask(f)) ELSE tb[1]
             IN  Some(IF ic /\ controlbit(f) # 0 THEN BitOr(m, controlbit(f)) ELSE m)

\* apply that stores its byte with "=" where the code has "|="
field_apply_assign(f, st, r, is_control_arg) ==
    IF r.err # "none" THEN r
    ELSE LET byte == field_byte(f, st, is_control_arg)
         IN  IF byte = None THEN [r EXCEPT !.err = "TypeError"]
             ELSE IF bytepos(f) >= Len(r.buf) THEN [r EXCEPT !.err = "IndexError"]
             ELSE [r EXCEPT !.buf[bytepos(f) + 1] = byte[1]]

\* one field's apply on the buffer r.buf; r.err carries the first exception
field_apply(f, st, r, is_control_arg) ==
    IF r.err # "none" THEN r
    ELSE LET byte == field_byte(f, st, is_control_arg)
         IN  IF byte = None THEN [r EXCEPT !.err = "TypeError"]
             ELSE IF bytepos(f) >= Len(r.buf) THEN [r EXCEPT !.err = "IndexError"]
             ELSE [r EXCEPT !.buf[bytepos(f) + 1] = BitOr(r.buf[bytepos(f) + 1], byte[1])]

\* set_from_bytes of the fields fs in order, stopping at the first exception
RECURSIVE set_from_bytes(_, _, _)
set_from_bytes(fs, st, byte_array) ==
    IF fs = <<>> \/ st.err # "none" THEN st
    ELSE set_from_bytes(Tail(fs), field_set_from_bytes(Head(fs), st, byte_array), byte_array)

\* apply of the fields fs in order onto r.buf
RECURSIVE apply(_, _, _, _)
apply(fs, st, r, is_control_arg) ==
    IF fs = <<>> \/ r.err # "none" THEN r
    ELSE apply(Tail(fs), st, field_apply(Head(fs), st, r, is_control_arg), is_control_arg)

(***************************************************************************)
(* AttrAggregateEnum: the pattern tables and the value property.           *)
(***************************************************************************)
\* rows (pattern, code); a pattern slot is None ("don't care") or a literal
agg_values(a) ==
    CASE a = "wind_dir_ud" ->
           << << <<Some(64), None>>, 0 >>,
              << <<Some(0), Some(0)>>, 1 >>,
              << <<Some(0), Some(16)>>, 2 >>,
              << <<Some(0), Some(32)>>, 3 >>,
              << <<Some(0), Some(48)>>, 4 >> >>
      [] a = "wind_dir_lr" ->
           << << <<Some(1), None>>, 0 >>,
              << <<Some(0), Some(0)>>, 1 >>,
              << <<Some(0), Some(1)>>, 2 >>,
              << <<Some(0), Some(2)>>, 3 >>,
              << <<Some(0), Some(3)>>, 4 >>,
              << <<Some(0), Some(4)>>, 5 >>,
              << <<Some(0), Some(5)>>, 6 >>,
              << <<Some(0), Some(6)>>, 7 >> >>

\* a getter that compares every slot, a "don't care" slot included
agg_get_strict(a, val) ==
    LET rows == agg_values(a)
        cs == components(a)
        hit(k) == \A i \in 1..Len(cs) : rows[k][1][i] = val[cs[i]]
        hits == { k \in 1..Len(rows) : hit(k) }
    IN  IF hits = {} THEN None
        ELSE Some(rows[CHOOSE k \in hits : \A j \in hits : k <= j][2])

\* the getter: the code of the first row whose every literal slot matches
agg_get(a, val) ==
    LET rows == agg_values(a)
        cs == components(a)
        hit(k) == \A i \in 1..Len(cs) :
                     rows[k][1][i] = None \/ rows[k][1][i] = val[cs[i]]
        hits == { k \in 1..Len(rows) : hit(k) }
    IN  IF hits = {} THEN None
        ELSE Some(rows[CHOOSE k \in hits : \A j \in hits : k <= j][2])

\* a setter that clears the components before it looks the code up
agg_set_clear_first(a, st, code) ==
    LET rows == agg_values(a)
        cs == components(a)
        hits == { k \in 1..Len(rows) : rows[k][2] = code }
        cleared == [ f \in DOMAIN st.value |->
                       IF \E i \in 1..Len(cs) : cs[i] = f THEN None ELSE st.value[f] ]
    IN  IF hits = {} THEN [st EXCEPT !.value = cleared, !.err = "ValueError"]
        ELSE LET k == CHOOSE k \in hits : \A j \in hits : k <= j
             IN  [st EXCEPT !.value =
                     [ f \in DOMAIN st.value |->
                         IF \E i \in 1..Len(cs) : cs[i] = f
                         THEN rows[k][1][CHOOSE i \in 1..Len(cs) : cs[i] = f]
                         ELSE st.value[f] ]]

\* a setter that writes a slot only when it is truthy ("if c_value:")
agg_set_skip_falsy(a, st, code) ==
    LET rows == agg_values(a)
        cs == components(a)
        hits == { k \in 1..Len(rows) : rows[k][2] = code }
    IN  IF hits = {} THEN [st EXCEPT !.err = "ValueError"]
        ELSE LET k == CHOOSE k \in hits : \A j \in hits : k <= j
                 slot(f) == rows[k][1][CHOOSE i \in 1..Len(cs) : cs[i] = f]
             IN  [st EXCEPT !.value =
                     [ f \in DOMAIN st.value |->
                         IF (\E i \in 1..Len(cs) : cs[i] = f)
                              /\ slot(f) # None /\ slot(f) # Some(0)
                         THEN slot(f)
                         ELSE st.value[f] ]]

\* the setter with a non-None code: every component is set to its slot of
\* the first row with that code (None for a "don't care" slot); ValueError
\* when no row has the code
agg_set(a, st, code) ==
    LET rows == agg_values(a)
        cs == components(a)
        hits == { k \in 1..Len(rows) : rows[k][2] = code }
    IN  IF hits = {} THEN [st EXCEPT !.err = "ValueError"]
        ELSE LET k == CHOOSE k \in hits : \A j \in hits : k <= j
             IN  [st EXCEPT !.value =
                     [ f \in DOMAIN st.value |->
                         IF \E i \in 1..Len(cs) : cs[i] = f
                         THEN rows[k][1][CHOOSE i \in 1..Len(cs) : cs[i] = f]
                         ELSE st.value[f] ]]

(***************************************************************************)
(* Settings.crc.  The register i is a Python integer that the loop never   *)
(* truncates; it is kept as its binary digits, least significant first.    *)
(***************************************************************************)
\* i = 65535: sixteen digits, all 1
reg_65535 == [ k \in 1..16 |-> TRUE ]

\* the value of the eight digits of i from position k on
ByteValue(i, k) ==
    LET d(j) == IF i[k + j] THEN 1 ELSE 0
    IN  d(0) + 2 * d(1) + 4 * d(2) + 8 * d(3)
           + 16 * d(4) + 32 * d(5) + 64 * d(6) + 128 * d(7)

\* i ^= 4129 (bits 0, 5 and 12); the register holds at least 17 digits here
reg_xor_4129(i) == [i EXCEPT ![1] = ~i[1], ![6] = ~i[6], ![13] = ~i[13]]

\* the inner loop reading bit 16 of the register where the code reads bit 15
crc_bit_bit16(i, b, i2) ==
    LET z2 == (ShiftRight(b, 7 - i2) % 2) = 1
        z == Len(i) >= 17 /\ i[17]
        shifted == <<FALSE>> \o i
    IN  IF z2 # z THEN reg_xor_4129(shifted) ELSE shifted

\* one pass of the inner loop for bit i2 of byte b
crc_bit(i, b, i2) ==
    LET z2 == (ShiftRight(b, 7 - i2) % 2) = 1
        z == i[16]
        shifted == <<FALSE>> \o i
    IN  IF z2 # z THEN reg_xor_4129(shifted) ELSE shifted

\* the inner loop "for i2 in range(0, 8)" from pass i2 on (the register is
\* never empty: the test on Len(i) only fixes the order of evaluation)
RECURSIVE crc_byte(_, _, _)
crc_byte(i, b, i2) ==
    IF i2 = 8 \/ Len(i) = 0 THEN i ELSE crc_byte(crc_bit(i, b, i2), b, i2 + 1)

\* the outer loop "for b in byte_array"
RECURSIVE crc_loop(_, _)
crc_loop(i, byte_array) ==
    IF byte_array = <<>> \/ Len(i) = 0 THEN i
    ELSE crc_loop(crc_byte(i, Head(byte_array), 0), Tail(byte_array))

\* "i = i & 65535; return [ i & 255, (i >> 8) & 255 ]"
crc(byte_array) ==
    LET i == crc_loop(reg_65535, byte_array)
    IN  << ByteValue(i, 1), ByteValue(i, 9) >>

(***************************************************************************)
(* Settings.to_bytes.                                                      *)
(***************************************************************************)
\* both passes with is_control=True
passes_both_true == << TRUE, TRUE >>

\* the is_control argument of the two passes
passes == << TRUE, FALSE >>

zero_buf == [ k \in 1..18 |-> IF k = 6 THEN 255 ELSE 0 ]

trailer == << 1, 255, 255, 255, 255 >>

\* one pass: the 18-byte buffer after every attribute's apply
section_buf(st, is_control_arg) ==
    apply(FieldOrder, st, [buf |-> zero_buf, err |-> "none"], Some(is_control_arg))

\* a section without its checksum
section_no_crc(buf) == buf \o trailer

\* a section whose checksum covers the 18 bytes before the trailer
section_crc_before_trailer(buf) == (buf \o trailer) \o crc(buf)

\* "buf += [1, 255, 255, 255, 255]; byte_array += buf + self.crc(buf)"
section(buf) ==
    LET full == buf \o trailer
    IN  full \o crc(full)

\* the list returned, or the exception of the first apply that raised
to_bytes(st) ==
    LET r1 == section_buf(st, passes[1])
        r2 == section_buf(st, passes[2])
    IN  IF r1.err # "none" THEN [out |-> <<>>, err |-> r1.err]
        ELSE IF r2.err # "none" THEN [out |-> <<>>, err |-> r2.err]
        ELSE [out |-> section(r1.buf) \o section(r2.buf), err |-> "none"]

(***************************************************************************)
(* Bounds and inputs.                                                      *)
(***************************************************************************)
\* set operations on one record between construction and to_bytes
MaxSets == 2

\* length of the byte sequences handed to crc on its own
MaxCrcLen == 5

\* bytes appended after the first one in the crc runs
CrcBytes == {0, 129, 255}

AllSame(c, n) == [ k \in 1..n |-> c ]

\* a status chunk as a device reports it: on, cool, airflow auto, 24.0 degrees
TypicalChunk == << 1, 0, 9, 23, 48, 255, 0, 0, 8, 0, 1, 3, 5, 0, 0, 5, 0, 0 >>

\* the 18-byte status chunks get_status hands to set_from_bytes
StatusChunks == { AllSame(c, 18) : c \in {85, 170, 255} } \cup { TypicalChunk }

\* chunks with one byte swept over every value, and undersized chunks
ProbeChunks ==
    { [ AllSame(c, 18) EXCEPT ![p] = b ] : c \in {0}, p \in 1..18, b \in 0..255 }
        \cup { AllSame(c, n) : c \in {0, 255}, n \in 0..17 }

\* --temp values in quarter degrees: -0.5, 22.25, 64.0, 128.0
TempInputs == {-2, 89, 256, 512}

\* --airflow choices
AirflowInputs == 0..4

\* codes assigned to an aggregate: every code of its table and one beyond
AggInputs(a) == IF a = "wind_dir_ud" THEN 0..5 ELSE 0..8

\* a status chunk whose louver bytes match no row: up/down auto 0 with
\* position 64, left/right auto 0 with position 7
NoMatchChunk == << 1, 0, 9, 64, 48, 255, 0, 0, 8, 0, 1, 7, 0, 0, 0, 5, 0, 0 >>

\* louver byte values: every auto code, listed and unlisted positions,
\* with and without the control bit
LouverBytes == {1, 3, 6, 16, 23, 48, 64, 112, 192, 240}

\* status chunks that differ in one louver byte (indices 2, 3, 11, 12)
LouverChunks ==
    { [ AllSame(0, 18) EXCEPT ![p + 1] = b ] : p \in {2, 3, 11, 12}, b \in LouverBytes }
        \cup { AllSame(0, 18), AllSame(255, 18), TypicalChunk, NoMatchChunk }

\* the sub-fields of the aggregates
ComponentFields == { components(a)[i] : a \in Aggregates, i \in 1..2 }

\* values set on a sub-field directly: listed and unlisted ones
ComponentInputs(f) ==
    CASE f = "wind_ud_auto" -> {0, 64}
      [] f = "wind_ud_pos" -> {0, 48, 64}
      [] f = "wind_lr_auto" -> {0, 1}
      [] f = "wind_lr_pos" -> {0, 6, 7}

st_now == [value |-> value, is_control |-> is_control, err |-> "none"]

(***************************************************************************)
(* The state machine.  op and arg name the last operation and its          *)
(* argument, err the exception it raised, out the list to_bytes returned,  *)
(* buf2 the buffer a single apply wrote to, src the last decoded chunk.    *)
(***************************************************************************)
Init ==
    /\ value = [ f \in Fields |-> None ]
    /\ is_control = [ f \in Fields |-> FALSE ]
    /\ op = "Settings"
    /\ arg = <<>>
    /\ err = "none"
    /\ src = <<>>
    /\ buf2 = <<>>
    /\ out = <<>>
    /\ nsets = 0
    /\ crcIn = <<>>
    /\ crcOut = <<>>

\* Settings(...): a new record, as get_status and set_status construct
New ==
    /\ op = "to_bytes"
    /\ value' = [ f \in Fields |-> None ]
    /\ is_control' = [ f \in Fields |-> FALSE ]
    /\ op' = "Settings"
    /\ arg' = <<>>
    /\ err' = "none"
    /\ src' = <<>>
    /\ buf2' = <<>>
    /\ out' = <<>>
    /\ nsets' = 0
    /\ UNCHANGED <<crcIn, crcOut>>

\* Settings.set_from_bytes on the record just constructed
Decode(chunks) ==
    /\ op = "Settings"
    /\ \E chunk \in chunks :
         LET st == set_from_bytes(FieldOrder, st_now, chunk)
         IN  /\ value' = st.value
             /\ is_control' = st.is_control
             /\ err' = st.err
             /\ src' = chunk
    /\ op' = "set_from_bytes"
    /\ arg' = <<>>
    /\ out' = <<>>
    /\ UNCHANGED <<buf2, nsets, crcIn, crcOut>>

\* AttrBase.set on an atomic field
SetField(f, v, a) ==
    /\ nsets < MaxSets
    /\ value' = [value EXCEPT ![f] = Some(v)]
    /\ op' = "set_" \o f
    /\ arg' = <<a>>
    /\ err' = "none"
    /\ out' = <<>>
    /\ nsets' = nsets + 1
    /\ UNCHANGED <<is_control, src, buf2, crcIn, crcOut>>

SetOnOff == \E b \in BOOLEAN : SetField("on_off", b, IF b THEN 1 ELSE 0)

SetPresetTemp == \E q \in TempInputs : SetField("preset_temp", q, q)

SetAirflow == \E c \in AirflowInputs : SetField("airflow", c, c)

\* AttrBase.set on an aggregate: the value setter
SetAggregate(a) ==
    /\ nsets < MaxSets
    /\ \E code \in AggInputs(a) :
         LET st == agg_set(a, st_now, code)
         IN  /\ value' = st.value
             /\ err' = st.err
             /\ arg' = <<code>>
    /\ op' = "set_" \o a
    /\ out' = <<>>
    /\ nsets' = nsets + 1
    /\ UNCHANGED <<is_control, src, buf2, crcIn, crcOut>>

SetWindUd == SetAggregate("wind_dir_ud")

SetWindLr == SetAggregate("wind_dir_lr")

\* AttrBase.set on a sub-field of an aggregate
SetComponent == \E f \in ComponentFields : \E v \in ComponentInputs(f) : SetField(f, v, v)

\* Settings.to_bytes
ToBytes ==
    /\ op # "to_bytes"
    /\ LET r == to_bytes(st_now)
       IN  /\ out' = r.out
           /\ err' = r.err
    /\ op' = "to_bytes"
    /\ arg' = <<>>
    /\ UNCHANGED <<value, is_control, src, buf2, nsets, crcIn, crcOut>>

\* apply of one attribute onto a zeroed 18-byte buffer; is_control is
\* None (-1), False (0) or True (1)
Apply ==
    /\ op = "set_from_bytes"
    /\ \E k \in 1..Len(attributes), ic \in {-1, 0, 1} :
         LET r == apply(components(attributes[k]), st_now,
                        [buf |-> AllSame(0, 18), err |-> "none"],
                        IF ic = -1 THEN None ELSE Some(ic = 1))
         IN  /\ buf2' = r.buf
             /\ err' = r.err
             /\ arg' = <<k, ic>>
    /\ op' = "apply"
    /\ out' = <<>>
    /\ UNCHANGED <<value, is_control, src, nsets, crcIn, crcOut>>

\* Settings.crc on a byte sequence one byte longer than the last
Crc ==
    /\ Len(crcIn) < MaxCrcLen
    /\ \E b \in (IF crcIn = <<>> THEN 0..255 ELSE CrcBytes) :
         /\ crcIn' = Append(crcIn, b)
         /\ crcOut' = crc(Append(crcIn, b))
    /\ UNCHANGED <<value, is_control, op, arg, err, src, buf2, out, nsets>>

Next ==
    \/ New
    \/ Decode(StatusChunks)
    \/ SetOnOff
    \/ SetPresetTemp
    \/ SetAirflow
    \/ SetWindUd
    \/ SetWindLr
    \/ ToBytes

Spec == Init /\ [][Next]_vars

\* decoding of probe chunks and re-encoding of single attributes
NextCodec ==
    \/ Decode(ProbeChunks)
    \/ Apply

SpecCodec == Init /\ [][NextCodec]_vars

\* the checksum on its own
NextCrc == Crc

SpecCrc == Init /\ [][NextCrc]_vars

\* the louver fields: decoding, assignment of a code, direct sub-field sets
NextAgg ==
    \/ Decode(LouverChunks)
    \/ SetWindUd
    \/ SetWindLr
    \/ SetComponent

SpecAgg == Init /\ [][NextAgg]_vars

(***************************************************************************)
(* Properties.                                                             *)
(***************************************************************************)
\* to_bytes returned a list
Encoded == op = "to_bytes" /\ err = "none"

\* section k (1 or 2) of the list to_bytes returned: 25 values
Sec(k) == SubSeq(out, 25 * (k - 1) + 1, 25 * k)

\* the byte at the source's 0-based index p
At(buf, p) == buf[p + 1]

ControlFields == { f \in Fields : controlbit(f) # 0 }

HasBit(x, bit) == (x \div bit) % 2 = 1

\* C1 as stated: after to_bytes, the control bit of every field that has
\* one is set in both sections of the output.
C1_ControlBitInBothSections ==
    Encoded =>
        \A k \in {1, 2} : \A f \in ControlFields :
            HasBit(At(Sec(k), bytepos(f)), controlbit(f))

\* C1 amended: the first pass runs with is_control=True and the second with
\* is_control=False.  The control bit of every field that has one is set
\* in the first section; in the second section it is clear for on_off,
\* op_mode, airflow and entrust, and for a louver sub-field or preset_temp
\* it is set only when the stored value itself carries that bit.
C1_ControlBitInFirstSectionOnly ==
    Encoded =>
        /\ \A f \in ControlFields : HasBit(At(Sec(1), bytepos(f)), controlbit(f))
        /\ \A f \in {"on_off", "op_mode", "airflow", "entrust"} :
              ~HasBit(At(Sec(2), bytepos(f)), controlbit(f))
        /\ \A f \in {"wind_ud_auto", "wind_ud_pos", "wind_lr_auto", "wind_lr_pos"} :
              HasBit(At(Sec(2), bytepos(f)), controlbit(f))
                 <=> (value[f] # None /\ HasBit(value[f][1], controlbit(f)))
        /\ HasBit(At(Sec(2), 4), 128)
              <=> (value["preset_temp"] # None
                     /\ HasBit(IntTrunc2(value["preset_temp"][1]), 128))

\* a field decoded with its control flag set is encoded without the
\* control bit in the second section
C1_Witness ==
    /\ Encoded
    /\ is_control["on_off"] /\ is_control["airflow"]
    /\ ~HasBit(At(Sec(2), 2), 2) /\ ~HasBit(At(Sec(2), 3), 8)
    /\ HasBit(At(Sec(1), 2), 2)

\* C2 as stated: to_bytes returns exactly 46 values.
C2_Length46 == Encoded => Len(out) = 46

\* the control bits of the fields at 0-based index p, OR-ed together
RECURSIVE ControlBitsAt(_, _)
ControlBitsAt(fs, p) ==
    IF fs = <<>> THEN 0
    ELSE BitOr(IF bytepos(Head(fs)) = p THEN controlbit(Head(fs)) ELSE 0,
               ControlBitsAt(Tail(fs), p))

\* C2 amended: to_bytes returns exactly 50 values, two sections of 25
\* (18 buffer bytes, 5 trailer bytes, 2 checksum bytes): the control
\* section followed by the value section, the control section being the
\* value section with every control bit OR-ed in.
C2_Length50 ==
    Encoded =>
        /\ Len(out) = 50
        /\ Len(Sec(1)) = 25 /\ Len(Sec(2)) = 25
        /\ \A p \in 0..17 :
              At(Sec(1), p) = BitOr(At(Sec(2), p), ControlBitsAt(FieldOrder, p))
        /\ \A p \in 18..22 : At(Sec(1), p) = At(Sec(2), p)

\* a payload built after two set operations
C2_Witness == Encoded /\ Len(out) = 50 /\ nsets = 2 /\ At(Sec(1), 2) # At(Sec(2), 2)

\* C3: each section has 255 at index 5 and the trailer 1,255,255,255,255
\* at indices 18..22, and is followed by crc() of its 23 bytes; no field
\* is laid out on index 5 or on the trailer.
C3_SentinelTrailerChecksum ==
    /\ \A f \in Fields : bytepos(f) # 5 /\ bytepos(f) < 18
    /\ Encoded =>
          \A k \in {1, 2} :
              /\ At(Sec(k), 5) = 255
              /\ SubSeq(Sec(k), 19, 23) = << 1, 255, 255, 255, 255 >>
              /\ SubSeq(Sec(k), 24, 25) = crc(SubSeq(Sec(k), 1, 23))

\* a payload encoded after a decode and a change of temperature and airflow
C3_Witness ==
    /\ Encoded /\ src # <<>> /\ nsets = 2
    /\ At(Sec(2), 4) = 44 /\ At(Sec(1), 4) = 172
    /\ At(Sec(1), 5) = 255 /\ At(Sec(1), 18) = 1

\* exclusive or of two naturals, four binary digits at a time
XorDigits(a, b) ==
    ((Digit(a, 0) + Digit(b, 0)) % 2) + 2 * ((Digit(a, 1) + Digit(b, 1)) % 2)
        + 4 * ((Digit(a, 2) + Digit(b, 2)) % 2) + 8 * ((Digit(a, 3) + Digit(b, 3)) % 2)

RECURSIVE BitXor(_, _)
BitXor(x, y) ==
    IF x = 0 THEN y
    ELSE IF y = 0 THEN x
    ELSE XorDigits(x % 16, y % 16) + 16 * BitXor(x \div 16, y \div 16)

\* the reference checksum: a 16-bit register, one data bit at a time
crc_ref_bit(reg, bit) ==
    LET top == reg \div 32768
        shifted == (2 * reg) % 65536
    IN  IF top # bit THEN BitXor(shifted, 4129) ELSE shifted

RECURSIVE crc_ref_byte(_, _, _)
crc_ref_byte(reg, b, n) ==
    IF n = 8 \/ reg < 0 THEN reg
    ELSE crc_ref_byte(crc_ref_bit(reg, (b \div Pow2(7 - n)) % 2), b, n + 1)

RECURSIVE crc_ref(_, _)
crc_ref(reg, bytes) ==
    IF bytes = <<>> \/ reg < 0 THEN reg
    ELSE crc_ref(crc_ref_byte(reg, Head(bytes), 0), Tail(bytes))

\* C4: crc returns [low byte, high byte] of the reference 16-bit checksum
\* (initial value 65535, feedback 4129, most significant bit first), and
\* both values are in 0..255.
C4_CrcMatchesReference ==
    crcOut # <<>> =>
        LET ref == crc_ref(65535, crcIn)
        IN  /\ crcOut = << ref % 256, ref \div 256 >>
            /\ crcOut[1] \in 0..255 /\ crcOut[2] \in 0..255

\* a checksum of three bytes, whose untruncated register is 40 digits long
C4_Witness ==
    /\ Len(crcIn) = 3 /\ crcOut # <<>>
    /\ Len(crc_loop(reg_65535, crcIn)) = 40
    /\ crcIn[1] = 49

\* the whole byte when no mask is configured
Masked(f, b) == IF mask(f) = 0 THEN b ELSE BitAnd(b, mask(f))

\* C5 as stated: set_from_bytes(buf) followed by apply on a zeroed buffer
\* with the decoded is_control leaves, for every field, the byte of buf
\* restricted to the field's mask.
C5_DecodeApplyRoundTrip ==
    (op = "apply" /\ err = "none" /\ arg[2] = -1 /\ Len(src) = 18) =>
        \A f \in { components(attributes[arg[1]])[i] :
                     i \in 1..Len(components(attributes[arg[1]])) } :
            At(buf2, bytepos(f)) = Masked(f, At(src, bytepos(f)))

\* C6 as stated: assigning a table code leaves a sub-field whose slot is
\* "don't care" with the value it had before.
C6_DontCareSlotUntouched ==
    [][ \A a \in Aggregates :
          (op' = "set_" \o a /\ err' = "none") =>
             \A k \in 1..Len(agg_values(a)) : \A i \in 1..2 :
                (agg_values(a)[k][2] = arg'[1] /\ agg_values(a)[k][1][i] = None)
                   => value'[components(a)[i]] = value[components(a)[i]] ]_vars

TableCodes(a) == { agg_values(a)[k][2] : k \in 1..Len(agg_values(a)) }

\* C7: assigning a code that no row of the table has raises ValueError
\* and leaves the value and is_control of every field as they were.
C7_UnknownCodeRaisesAndKeepsState ==
    [][ \A a \in Aggregates :
          (op' = "set_" \o a /\ arg'[1] \notin TableCodes(a)) =>
             (err' = "ValueError" /\ value' = value /\ is_control' = is_control) ]_vars

\* an unknown code is refused on a record that was decoded and changed
C7_Witness ==
    /\ op = "set_wind_dir_ud" /\ err = "ValueError" /\ arg = <<5>>
    /\ nsets = 2 /\ value["wind_ud_pos"] # None /\ is_control["wind_ud_pos"]

\* C8: right after a code of the table is assigned to an aggregate,
\* reading the aggregate returns that code.
C8_AssignThenRead ==
    \A a \in Aggregates :
        (op = "set_" \o a /\ err = "none") =>
            /\ arg[1] \in TableCodes(a)
            /\ agg_get(a, value) = Some(arg[1])

\* a position is assigned while the record decoded as "auto"
C8_Witness ==
    /\ op = "set_wind_dir_lr" /\ err = "none" /\ arg = <<7>>
    /\ src = AllSame(255, 18) /\ nsets = 2
    /\ agg_get("wind_dir_lr", value) = Some(7)

\* the bits a field owns in its byte (the whole byte when it has no mask)
Owned(f) == IF mask(f) = 0 THEN 255 ELSE mask(f)

\* C9: the masks of the fields that share a byte index do not overlap, a
\* control bit lies inside its field's mask, and in both encoded sections
\* every field finds in its own bits exactly the byte it wrote.
C9_MasksDisjoint ==
    /\ \A f \in Fields : \A g \in Fields \ {f} :
          bytepos(f) = bytepos(g) => BitAnd(Owned(f), Owned(g)) = 0
    /\ \A f \in Fields : BitAnd(controlbit(f), Owned(f)) = controlbit(f)
    /\ Encoded =>
          \A k \in {1, 2} : \A f \in Fields :
              Masked(f, At(Sec(k), bytepos(f)))
                 = field_byte(f, st_now, Some(passes[k]))[1]

\* three fields contribute non-zero bits to byte 2 of the value section
C9_Witness ==
    /\ Encoded
    /\ BitAnd(At(Sec(2), 2), 3) # 0
    /\ BitAnd(At(Sec(2), 2), 60) # 0
    /\ BitAnd(At(Sec(2), 2), 192) # 0

\* the code of a stripped raw byte in an enumeration's table, None outside
EnumCode(f, b) ==
    CASE f = "op_mode" ->
           LET r == (b \div 4) % 8
           IN  IF r = 0 THEN Some(0) ELSE IF r = 2 THEN Some(1)
               ELSE IF r = 4 THEN Some(2) ELSE IF r = 3 THEN Some(3)
               ELSE IF r = 1 THEN Some(4) ELSE None
      [] f = "airflow" ->
           LET r == b % 8
           IN  IF r = 7 THEN Some(0) ELSE IF r \in {0, 1, 2} THEN Some(r + 1)
               ELSE IF r = 6 THEN Some(4) ELSE None
      [] f = "entrust" -> Some((b \div 4) % 2)

\* C10: set_from_bytes on an 18-byte buffer raises nothing; every field
\* that is not an enumeration gets a value, and an enumeration gets the
\* table's code of its raw byte, or None when the table has no such byte.
C10_DecodeTotal ==
    (op = "set_from_bytes" /\ Len(src) = 18) =>
        /\ err = "none"
        /\ \A f \in Fields \ EnumFields : value[f] # None
        /\ \A f \in EnumFields : value[f] = EnumCode(f, At(src, bytepos(f)))

\* an unrecognised raw byte decodes to None without an exception
C10_Witness ==
    /\ op = "set_from_bytes" /\ Len(src) = 18 /\ err = "none"
    /\ At(src, 3) = 5 /\ value["airflow"] = None /\ value["wind_ud_pos"] = Some(0)

\* the fields in decode order up to the first one whose index a buffer of
\* length n does not have
RECURSIVE DecodedBefore(_, _)
DecodedBefore(fs, n) ==
    IF fs = <<>> \/ bytepos(Head(fs)) >= n THEN {}
    ELSE {Head(fs)} \cup DecodedBefore(Tail(fs), n)

\* C11 as stated: set_from_bytes on any buffer shorter than 18 bytes
\* raises IndexError.
C11_ShorterThan18Fails ==
    (op = "set_from_bytes" /\ Len(src) < 18) => err = "IndexError"

\* C11 amended: the highest index a field reads is 15.  set_from_bytes on
\* a buffer of 15 bytes or fewer raises IndexError at the first field, in
\* decode order, whose index the buffer lacks: the fields before it keep
\* their decoded values and the others stay unset.  A buffer of 16 or 17
\* bytes decodes without an exception and every field is decoded.
C11_ShorterThan16Fails ==
    /\ \A f \in Fields : bytepos(f) <= 15
    /\ \E f \in Fields : bytepos(f) = 15
    /\ (op = "set_from_bytes" /\ Len(src) <= 15) =>
          /\ err = "IndexError"
          /\ \A f \in Fields \ DecodedBefore(FieldOrder, Len(src)) :
                value[f] = None /\ ~is_control[f]
          /\ \A f \in DecodedBefore(FieldOrder, Len(src)) \ EnumFields :
                value[f] # None
    /\ (op = "set_from_bytes" /\ Len(src) \in 16..17) =>
          /\ err = "none"
          /\ \A f \in Fields \ EnumFields : value[f] # None

\* a 15-byte buffer fails at self_clean, after entrust was decoded and
\* before the louver fields are reached
C11_Witness ==
    /\ op = "set_from_bytes" /\ Len(src) = 15 /\ err = "IndexError"
    /\ value["entrust"] = Some(1) /\ is_control["entrust"]
    /\ value["self_clean"] = None /\ value["wind_ud_auto"] = None

\* the code an aggregate shows for its two sub-field values, by cases:
\* auto wins whatever the position, a position counts only with auto 0
AggCode(a, auto, pos) ==
    IF a = "wind_dir_ud"
    THEN IF auto = Some(64) THEN Some(0)
         ELSE IF auto = Some(0) /\ pos # None /\ pos[1] \in {0, 16, 32, 48}
              THEN Some(pos[1] \div 16 + 1)
         ELSE None
    ELSE IF auto = Some(1) THEN Some(0)
         ELSE IF auto = Some(0) /\ pos # None /\ pos[1] \in 0..6
              THEN Some(pos[1] + 1)
         ELSE None

\* C12: in every state reached by decodes, assignments of a code and
\* direct sub-field sets, reading an aggregate returns the code of the
\* one row its current sub-field values match ("don't care" slots match
\* anything), and None when they match no row; the rows of a table are
\* mutually exclusive on the auto slot, so the first match is the only one.
C12_ReadReflectsSubFields ==
    \A a \in Aggregates :
        /\ agg_get(a, value)
              = AggCode(a, value[components(a)[1]], value[components(a)[2]])
        /\ \A j, k \in 1..Len(agg_values(a)) :
              (j < k /\ agg_values(a)[j][1][1] = agg_values(a)[k][1][1])
                 => (/\ agg_values(a)[j][1][2] # None
                     /\ agg_values(a)[k][1][2] # None
                     /\ agg_values(a)[j][1][2] # agg_values(a)[k][1][2])

\* a record decoded with louver bytes that match no row reads None for
\* both aggregates; after "auto" is set on one sub-field directly, the
\* up/down aggregate reads 0 while the left/right one still reads None
C12_Witness ==
    /\ src = NoMatchChunk /\ op = "set_wind_ud_auto" /\ arg = <<64>>
    /\ value["wind_ud_pos"] = Some(64)
    /\ agg_get("wind_dir_ud", value) = Some(0)
    /\ agg_get("wind_dir_lr", value) = None

\* C13 as stated: for a record decoded from an 18-byte buffer and changed
\* by set operations, every element of the list to_bytes returns is in
\* 0..255, and bit 7 of the preset-temperature byte (index 4) is clear in
\* the section encoded with is_control false.
C13_PayloadBytesInRange ==
    (Encoded /\ Len(src) = 18) =>
        /\ \A k \in 1..Len(out) : out[k] \in 0..255
        /\ ~HasBit(At(Sec(2), 4), 128)

====
